---- MODULE Spec2Model ----
(***************************************************************************)
(* A model of the timeManagement package: the realTimeProvider virtual     *)
(* clock (timeManagement.go) and the package-level Now() with its server   *)
(* time source (serverTime.go).                                            *)
(*                                                                         *)
(* Time is counted in whole ticks of the wall clock.  A time.Time is a     *)
(* record [t, loc]: the instant and the location it is presented in.  A    *)
(* float64 scale is a reduced fraction [num, den] with den > 0, so 1.0 is  *)
(* [num |-> 1, den |-> 1], and NaN is [num |-> 0, den |-> 0];              *)
(* time.Duration(float64(d) * scale) truncates toward zero, as the Go      *)
(* conversion does, and gives an implementation-dependent value for NaN.   *)
(* A call is one step for each stretch it runs without waiting: it is cut *)
(* where it takes a lock it did not hold, waits for the server or waits    *)
(* for a timer, and there the wall clock may tick and other calls may run. *)
(* Within one stretch the wall clock is read at a single tick.             *)
(***************************************************************************)
EXTENDS Integers, Sequences, FiniteSets, TLC

VARIABLES
    wall,           \* the host wall clock, the value time.Now() reads
    r,              \* the realTimeProvider struct (the singleton's fields)
    last,           \* observation: the last call made, its inputs and result
    timers,         \* the Sleep or After wait in flight: <<>> or <<wait>>
    useServerTime,  \* serverTime.go: whether the package-level Now() asks the server
    serverURL,      \* serverTime.go: the server's base URL
    heap,           \* the realTimeProvider objects allocated so far
    instance,       \* the package variable instance: 0 is nil, else a heap index
    onceDone,       \* sync.Once: done
    onceM,          \* sync.Once: the holder of its mutex, 0 when free
    procs,          \* the goroutines calling GetProvider and using its result
    written,        \* observation: the scale last set through any handle
    mockTimeLock,   \* the provider's sync.RWMutex
    mu,             \* serverTime.go: the sync.RWMutex of the configuration
    thr,            \* the goroutines calling the clock concurrently
    calls,          \* the calls under way between two of their steps
    conv            \* what converting NaN to a time.Duration gives in this build

facadeVars == <<useServerTime, serverURL>>
onceVars == <<heap, instance, onceDone, onceM, procs, written>>
clockVars == <<wall, r, last, timers, useServerTime, serverURL, calls, conv>>
lockVars == <<mockTimeLock, mu, thr>>
vars == <<wall, r, last, timers, useServerTime, serverURL,
          heap, instance, onceDone, onceM, procs, written,
          mockTimeLock, mu, thr, calls, conv>>

----------------------------------------------------------------------------
(* Bounds of the model *)

MaxWall == 4        \* the wall clock runs from WallStart to MaxWall
WallStart == 1
MaxMock == 2        \* SetMockTime is given instants 0..MaxMock
MaxD == 2           \* Sleep and After are given durations 0..MaxD
NumProcs == 2       \* goroutines calling GetProvider
MaxDuration == 100  \* the ticks standing for the greatest time.Duration

----------------------------------------------------------------------------
(* time.Time, time.Duration and float64 scale values *)

ZeroTime == [t |-> 0, loc |-> "UTC"]                      \* time.Time{}
One == [num |-> 1, den |-> 1]                             \* 1.0
NaN == [num |-> 0, den |-> 0]                            \* math.NaN()
\* the scales greater than 0: 0.5, 1.0 and 2.0
ValidScales == {[num |-> 1, den |-> 2], One, [num |-> 2, den |-> 1]}
\* the scales not greater than 0: 0 and -1.0, and NaN, of which every
\* comparison is false
BadScales == {[num |-> 0, den |-> 1], [num |-> -1, den |-> 1], NaN}
Zones == {"UTC", "Local"}
MockInputs == [t : 0..MaxMock, loc : Zones]
Durations == 0..MaxD

\* integer division truncating toward zero, den > 0
TruncDiv(a, b) == IF a >= 0 THEN a \div b ELSE -((-a) \div b)

\* time.Now(): the wall clock, in the local zone
TimeNow(w) == [t |-> w, loc |-> "Local"]
\* t.UTC(): the same instant presented in UTC
UTC(tm) == [tm EXCEPT !.loc = "UTC"]
\* t.Add(d)
Add(tm, d) == [tm EXCEPT !.t = @ + d]
\* time.Since(t)
Since(tm, w) == w - tm.t
\* time.Duration(NaN): the conversion succeeds and its value depends on the
\* implementation: the least Duration, zero or the greatest Duration
NaNConversions == {-MaxDuration, 0, MaxDuration}
\* time.Duration(float64(d) * scale); the product with NaN is NaN
Scaled(d, scale) ==
    IF scale = NaN THEN conv[1] ELSE TruncDiv(d * scale.num, scale.den)
\* time.Duration(float64(d) / scale); the quotient by NaN is NaN
Unscaled(d, scale) ==
    IF scale = NaN THEN conv[1] ELSE TruncDiv(d * scale.den, scale.num)

----------------------------------------------------------------------------
(* realTimeProvider *)

\* &realTimeProvider{timeScale: 1.0}; mockTime is a pointer: <<>> is nil
NewProvider ==
    [mockTime |-> <<>>, mockStartTime |-> ZeroTime, mockBaseTime |-> ZeroTime,
     timeScale |-> One, baseTime |-> ZeroTime, scaleStart |-> ZeroTime]

\* a Now() that subtracts the scaled elapsed time where the code adds it
ProviderNowBackward(p, w) ==
    IF p.mockTime # <<>>
    THEN LET elapsed == Since(p.mockStartTime, w)
             scaled == IF p.timeScale # One
                       THEN Scaled(elapsed, p.timeScale)
                       ELSE elapsed
         IN  UTC(Add(p.mockBaseTime, scaled))
    ELSE IF p.timeScale # One
         THEN UTC(Add(p.baseTime, -Scaled(Since(p.scaleStart, w), p.timeScale)))
         ELSE UTC(TimeNow(w))

\* (r *realTimeProvider) Now(), read at wall clock w
ProviderNow(p, w) ==
    IF p.mockTime # <<>>
    THEN LET elapsed == Since(p.mockStartTime, w)
             scaled == IF p.timeScale # One
                       THEN Scaled(elapsed, p.timeScale)
                       ELSE elapsed
         IN  UTC(Add(p.mockBaseTime, scaled))
    ELSE IF p.timeScale # One
         THEN UTC(Add(p.baseTime, Scaled(Since(p.scaleStart, w), p.timeScale)))
         ELSE UTC(TimeNow(w))

\* a guard that lets a scale of exactly 0 through
ScaleRejectedNegativeOnly(scale) == scale.num < 0

\* SetTimeScale's guard: scale <= 0 panics; NaN <= 0 is false
ScaleRejected(scale) == scale # NaN /\ scale.num <= 0

\* a rebase that restarts the mock anchor without advancing its base
ProviderSetTimeScaleWriteNoAdvance(p, currentTime, scale, w) ==
    LET q == IF p.mockTime # <<>>
             THEN [p EXCEPT !.mockStartTime = TimeNow(w)]
             ELSE p
    IN  [q EXCEPT !.baseTime = currentTime,
                  !.scaleStart = UTC(TimeNow(w)),
                  !.timeScale = scale]

\* SetTimeScale's writes under the write lock, at wall clock w, given the
\* currentTime its call of Now() returned
ProviderSetTimeScaleWrite(p, currentTime, scale, w) ==
    LET q == IF p.mockTime # <<>>
             THEN [p EXCEPT !.mockBaseTime = Add(@, Since(p.mockStartTime, w)),
                            !.mockStartTime = TimeNow(w)]
             ELSE p
    IN  [q EXCEPT !.baseTime = currentTime,
                  !.scaleStart = UTC(TimeNow(w)),
                  !.timeScale = scale]

\* a SetMockTime that leaves the scale as it is
ProviderSetMockTimeKeepScale(p, tm, w) ==
    LET utcTime == UTC(tm)
    IN  [p EXCEPT !.mockBaseTime = utcTime,
                  !.mockStartTime = TimeNow(w),
                  !.mockTime = <<utcTime>>]

\* SetMockTime that re-anchors the base and leaves the old start in place
ProviderSetMockTimeKeepStart(p, tm, w) ==
    LET utcTime == UTC(tm)
    IN  [p EXCEPT !.mockBaseTime = utcTime,
                  !.mockStartTime = IF p.mockTime # <<>> THEN @ ELSE TimeNow(w),
                  !.mockTime = <<utcTime>>,
                  !.timeScale = One]

\* SetMockTime(t) at wall clock w
ProviderSetMockTime(p, tm, w) ==
    LET utcTime == UTC(tm)
    IN  [p EXCEPT !.mockBaseTime = utcTime,
                  !.mockStartTime = TimeNow(w),
                  !.mockTime = <<utcTime>>,
                  !.timeScale = One]

\* a ClearMockTime that leaves the scale as it is
ProviderClearMockTimeKeepScale(p) == [p EXCEPT !.mockTime = <<>>]

\* ClearMockTime()
ProviderClearMockTime(p) == [p EXCEPT !.mockTime = <<>>, !.timeScale = One]

\* GetTimeScale()
ProviderGetTimeScale(p) == p.timeScale

\* a Sleep that multiplies by the scale where the code divides
ProviderSleepDurationScaled(p, d) ==
    IF p.timeScale # One THEN Scaled(d, p.timeScale) ELSE d

\* Sleep(d): the real time handed to time.Sleep
ProviderSleepDuration(p, d) ==
    IF p.timeScale # One THEN Unscaled(d, p.timeScale) ELSE d

\* an After that fires at once while a mock time is set
ProviderAfterDurationMockZero(p, d) ==
    IF p.mockTime # <<>> THEN 0
    ELSE IF p.timeScale # One THEN Unscaled(d, p.timeScale) ELSE d

\* After(d): the real time handed to time.After
ProviderAfterDuration(p, d) ==
    IF p.timeScale # One THEN Unscaled(d, p.timeScale) ELSE d

----------------------------------------------------------------------------
(* GetProvider and sync.Once *)

Procs == 1..NumProcs

\* an initialisation that is not tested again under the mutex
OnceSlowTodoAlways(done) == TRUE

\* once.Do's tests of done: the fast path's atomic load, and the second
\* test made under the mutex; TRUE when the function is still to be run
OnceFastTodo(done) == ~done
OnceSlowTodo(done) == ~done

----------------------------------------------------------------------------
(* serverTime.go: the server time source and the package-level Now() *)

StatusOK == 200                                           \* http.StatusOK
Statuses == {StatusOK, 204, 404}
GoodURL == "http://time-server"
URLs == {"", GoodURL, "http://invalid-url"}

\* the currentTime string of a response: not a timestamp at all, or an
\* RFC3339Nano text giving a clock reading and its offset from UTC (0 is "Z")
BadStamp == [wellFormed |-> FALSE, clock |-> 0, off |-> 0]
Stamps == {BadStamp} \cup
          [wellFormed : {TRUE}, clock : {MaxWall + 1, MaxWall + 3}, off : {0, 1}]
\* a response body: not JSON for a TimeResponse, or {"currentTime": stamp}
BadJSON == [json |-> FALSE, currentTime |-> BadStamp]
Bodies == {BadJSON} \cup [json : {TRUE}, currentTime : Stamps]
\* what http.Get(serverURL + "/time") comes back with
TransportError == [transport |-> TRUE, status |-> 0, body |-> BadJSON]
Responses == {TransportError} \cup
             [transport : {FALSE}, status : Statuses, body : Bodies]
\* only GoodURL names a server that answers; it may still be unreachable
Fetch(url) == IF url = GoodURL THEN Responses ELSE {TransportError}

\* a parse that takes the clock reading for the instant, dropping the offset
ParseIgnoringOffset(stamp) ==
    IF stamp.wellFormed
    THEN [err |-> FALSE,
          time |-> [t |-> stamp.clock,
                    loc |-> IF stamp.off = 0 THEN "UTC" ELSE "Fixed"]]
    ELSE [err |-> TRUE, time |-> ZeroTime]

\* time.Parse(time.RFC3339Nano, s): the instant is the clock reading less
\* its offset, presented in UTC for "Z" and in a fixed zone otherwise
ParseRFC3339Nano(stamp) ==
    IF stamp.wellFormed
    THEN [err |-> FALSE,
          time |-> [t |-> stamp.clock - stamp.off,
                    loc |-> IF stamp.off = 0 THEN "UTC" ELSE "Fixed"]]
    ELSE [err |-> TRUE, time |-> ZeroTime]

\* a getServerTime that decodes the body whatever the status is
getServerTimeAnyStatus(resp) ==
    IF resp.transport THEN [err |-> TRUE, time |-> ZeroTime]
    ELSE IF ~resp.body.json THEN [err |-> TRUE, time |-> ZeroTime]
    ELSE ParseRFC3339Nano(resp.body.currentTime)

\* getServerTime(), given the response to its request
getServerTime(resp) ==
    IF resp.transport THEN [err |-> TRUE, time |-> ZeroTime]
    ELSE IF resp.status # StatusOK THEN [err |-> TRUE, time |-> ZeroTime]
    ELSE IF ~resp.body.json THEN [err |-> TRUE, time |-> ZeroTime]
    ELSE ParseRFC3339Nano(resp.body.currentTime)

\* a package-level Now() that falls back to the provider's virtual clock
PackageNowFromProvider(use, resp, w) ==
    LET fetched == getServerTime(resp)
    IN  IF use /\ ~fetched.err
        THEN [outcome |-> "ok", source |-> "server", time |-> fetched.time]
        ELSE [outcome |-> "ok", source |-> "local", time |-> ProviderNow(r, w)]

\* the package-level Now() at wall clock w; source tells which return
\* statement produced the value
PackageNow(use, resp, w) ==
    LET fetched == getServerTime(resp)
    IN  IF use /\ ~fetched.err
        THEN [outcome |-> "ok", source |-> "server", time |-> fetched.time]
        ELSE [outcome |-> "ok", source |-> "local", time |-> UTC(TimeNow(w))]

----------------------------------------------------------------------------
(* sync.RWMutex and the goroutines that call the clock concurrently *)

\* a sync.RWMutex: w is the goroutine that has called Lock() and not yet
\* Unlock() (0 when none), readers the goroutines between RLock() and
\* RUnlock().  A pending Lock() keeps new readers out and waits for the
\* present readers to leave.
NewRWMutex == [w |-> 0, readers |-> {}]

CanRLock(l) == l.w = 0
RLock(l, p) == [l EXCEPT !.readers = @ \cup {p}]

\* a return that forgets the deferred RUnlock
RUnlockKept(l, p) == l

RUnlock(l, p) == [l EXCEPT !.readers = @ \ {p}]

\* Lock() in two steps: announce the writer, then wait for the readers
CanLock(l) == l.w = 0
LockPending(l, p) == [l EXCEPT !.w = p]
LockHeld(l, p) == l.w = p /\ l.readers = {}
Unlock(l, p) == [l EXCEPT !.w = 0]

\* p holds l, as a reader or as the (pending or admitted) writer
Holds(l, p) == p \in l.readers \/ l.w = p

\* a goroutine between calls; during a call: arg its arguments, cur the
\* currentTime local of SetTimeScale (v) and the wall clock at which it was
\* read (at), reads the values Sleep or After read from r.timeScale, racy
\* whether one of those reads was made while another goroutine was inside
\* a write-locked section, wait the runtime timer set and its start
IdleThread == [pc |-> "idle", arg |-> <<>>, cur |-> <<>>, reads |-> <<>>,
               racy |-> FALSE, wait |-> <<>>]

----------------------------------------------------------------------------
(* Observations *)

NoArg == <<>>

\* the scale a caller expects GetTimeScale to report after a call: s after
\* SetTimeScale(s) returned, 1.0 after ClearTimeScale and SetMockTime,
\* nothing known after ClearMockTime, unchanged by every other call
ExpectAfter(op, arg, outcome) ==
    CASE op = "SetTimeScale" /\ outcome = "ok" -> <<arg>>
      [] op \in {"ClearTimeScale", "SetMockTime"} -> <<One>>
      [] op = "ClearMockTime" -> <<>>
      [] OTHER -> last.expect

\* the Now() result later Now() calls are compared with: this call's result
\* after Now(), none after a SetTimeScale, ClearTimeScale or SetMockTime
\* call, marked once a ClearMockTime call was made, else unchanged
RefAfter(op) ==
    CASE op = "Now" -> <<[v |-> ProviderNow(r, wall), cleared |-> FALSE]>>
      [] op \in {"SetTimeScale", "ClearTimeScale", "SetMockTime"} -> <<>>
      [] op = "ClearMockTime" /\ last.ref # <<>> ->
             <<[last.ref[1] EXCEPT !.cleared = TRUE]>>
      [] OTHER -> last.ref

\* what one call leaves behind: the call, its argument, the virtual time
\* just before it, the wall clock at the call, how it ended and what it
\* returned; since is the reference the call found, for a Now() call
Obs(op, arg, outcome, result) ==
    [op |-> op, arg |-> arg, prior |-> ProviderNow(r, wall),
     at |-> wall, outcome |-> outcome, result |-> result,
     expect |-> ExpectAfter(op, arg, outcome),
     since |-> IF op = "Now" THEN last.ref ELSE <<>>,
     ref |-> RefAfter(op)]

\* no call is under way: sts is the SetTimeScale call that has read
\* currentTime and not yet written (its name, scale and currentTime), pkg
\* tells whether a package-level Now() holds mu for reading with its
\* request to the server in flight
NoCalls == [sts |-> <<>>, pkg |-> FALSE]

Init ==
    /\ wall = WallStart
    /\ r = NewProvider
    /\ last = [op |-> "none", arg |-> NoArg, prior |-> UTC(TimeNow(WallStart)),
               at |-> WallStart,
               outcome |-> "ok", result |-> NoArg,
               expect |-> <<One>>, since |-> <<>>, ref |-> <<>>]
    /\ timers = <<>>
    /\ useServerTime = FALSE
    /\ serverURL = ""
    /\ heap = <<>>
    /\ instance = 0
    /\ onceDone = FALSE
    /\ onceM = 0
    /\ procs = [p \in Procs |-> [pc |-> "idle", handle |-> 0, path |-> "none",
                                 seen |-> <<>>, call |-> <<>>]]
    /\ written = <<>>
    /\ mockTimeLock = NewRWMutex
    /\ mu = NewRWMutex
    /\ thr = [p \in Procs |-> IdleThread]
    /\ calls = NoCalls
    /\ conv = <<>>

\* a runtime timer (time.Sleep, time.After) is due once its wait has passed
Due(tm, w) == w - tm.start >= tm.wait

\* the wall clock advances by one tick, whatever is waiting for it
Tick ==
    /\ wall < MaxWall
    /\ wall' = wall + 1
    /\ UNCHANGED <<r, last, timers, facadeVars, onceVars, lockVars, calls, conv>>

Now ==
    /\ last' = Obs("Now", NoArg, "ok", <<ProviderNow(r, wall)>>)
    /\ UNCHANGED <<wall, r, timers, facadeVars, onceVars, lockVars, calls, conv>>

\* the instants the model follows: those a clock thrown once by the
\* conversion of NaN can show
Reach == MaxDuration + MaxDuration \div 2
InReach(tm) == tm.t >= -Reach /\ tm.t <= Reach

\* the build fixes what time.Duration(NaN) gives; it is settled when a NaN
\* scale is first stored, before any conversion of it is made
StoreScale(scale) ==
    conv' \in IF scale = NaN /\ conv = <<>>
              THEN {<<c>> : c \in NaNConversions}
              ELSE {conv}

\* SetTimeScale up to its write lock: the guard, then currentTime := r.Now()
\* under the read lock, which Now() releases on return
SetTimeScaleRead(op, scale) ==
    IF ScaleRejected(scale)
    THEN /\ last' = Obs(op, scale, "panic", NoArg)
         /\ UNCHANGED <<r, calls>>
    ELSE /\ calls.sts = <<>>
         /\ InReach(ProviderNow(r, wall))
         /\ calls' = [calls EXCEPT !.sts = <<[op |-> op, scale |-> scale,
                                              cur |-> ProviderNow(r, wall)]>>]
         /\ UNCHANGED <<r, last>>

SetTimeScale(scale) ==
    /\ SetTimeScaleRead("SetTimeScale", scale)
    /\ UNCHANGED <<wall, timers, facadeVars, onceVars, lockVars, conv>>

\* ClearTimeScale() is r.SetTimeScale(1.0)
ClearTimeScale ==
    /\ SetTimeScaleRead("ClearTimeScale", One)
    /\ UNCHANGED <<wall, timers, facadeVars, onceVars, lockVars, conv>>

\* SetTimeScale from r.mockTimeLock.Lock() to its return: the writes, made
\* with the currentTime read before
SetTimeScaleWrite ==
    /\ calls.sts # <<>>
    /\ LET c == calls.sts[1]
       IN  /\ last' = Obs(c.op, c.scale, "ok",
                          IF c.op = "ClearTimeScale"
                          THEN [scaleBefore |-> r.timeScale] ELSE NoArg)
           /\ r' = ProviderSetTimeScaleWrite(r, c.cur, c.scale, wall)
           /\ StoreScale(c.scale)
    /\ calls' = [calls EXCEPT !.sts = <<>>]
    /\ UNCHANGED <<wall, timers, facadeVars, onceVars, lockVars>>

GetTimeScale ==
    /\ last' = Obs("GetTimeScale", NoArg, "ok", <<ProviderGetTimeScale(r)>>)
    /\ UNCHANGED <<wall, r, timers, facadeVars, onceVars, lockVars, calls, conv>>

SetMockTime(tm) ==
    /\ last' = Obs("SetMockTime", tm, "ok", NoArg)
    /\ r' = ProviderSetMockTime(r, tm, wall)
    /\ UNCHANGED <<wall, timers, facadeVars, onceVars, lockVars, calls, conv>>

ClearMockTime ==
    /\ last' = Obs("ClearMockTime", NoArg, "ok", [scaleBefore |-> r.timeScale])
    /\ r' = ProviderClearMockTime(r)
    /\ UNCHANGED <<wall, timers, facadeVars, onceVars, lockVars, calls, conv>>

\* Sleep(d) is called: the scale is read and the wait starts
Sleep(d) ==
    /\ timers = <<>>
    /\ timers' = Append(timers,
                    [kind |-> "Sleep", d |-> d, scale |-> r.timeScale,
                     mock |-> r.mockTime # <<>>, start |-> wall,
                     wait |-> ProviderSleepDuration(r, d)])
    /\ UNCHANGED <<wall, r, last, facadeVars, onceVars, lockVars, calls, conv>>

\* After(d) is called: the scale is read and the runtime timer starts
After(d) ==
    /\ timers = <<>>
    /\ timers' = Append(timers,
                    [kind |-> "After", d |-> d, scale |-> r.timeScale,
                     mock |-> r.mockTime # <<>>, start |-> wall,
                     wait |-> ProviderAfterDuration(r, d)])
    /\ UNCHANGED <<wall, r, last, facadeVars, onceVars, lockVars, calls, conv>>

Remove(seq, i) == SubSeq(seq, 1, i - 1) \o SubSeq(seq, i + 1, Len(seq))

\* what a finished wait leaves behind; value is what the channel of
\* time.After delivers: the runtime's time.Now() when the timer fires
Fired(tm) ==
    [scale |-> tm.scale, mock |-> tm.mock, start |-> tm.start,
     wait |-> tm.wait, woke |-> wall, value |-> TimeNow(wall)]

\* time.Sleep is over and Sleep returns
SleepReturn(i) ==
    /\ timers[i].kind = "Sleep"
    /\ Due(timers[i], wall)
    /\ last' = Obs("Sleep", timers[i].d, "ok", Fired(timers[i]))
    /\ timers' = Remove(timers, i)
    /\ UNCHANGED <<wall, r, facadeVars, onceVars, lockVars, calls, conv>>

\* the timer of time.After fires and the channel delivers
AfterFire(i) ==
    /\ timers[i].kind = "After"
    /\ Due(timers[i], wall)
    /\ last' = Obs("After", timers[i].d, "ok", Fired(timers[i]))
    /\ timers' = Remove(timers, i)
    /\ UNCHANGED <<wall, r, facadeVars, onceVars, lockVars, calls, conv>>

\* SetUseServerTime: mu.Lock() waits while a Now() holds mu for reading
SetUseServerTime(use, url) ==
    /\ ~calls.pkg
    /\ useServerTime' = use
    /\ serverURL' = url
    /\ UNCHANGED <<wall, r, last, timers, onceVars, lockVars, calls, conv>>

\* the package-level Now() is called: mu.RLock(); without useServerTime it
\* returns the local time at once, with it the request is sent
PkgNow ==
    /\ ~calls.pkg
    /\ IF useServerTime
       THEN /\ calls' = [calls EXCEPT !.pkg = TRUE]
            /\ last' = last
       ELSE /\ LET res == PackageNow(FALSE, TransportError, wall)
               IN  last' = Obs("PkgNow", [use |-> FALSE, resp |-> TransportError],
                               res.outcome, res)
            /\ calls' = calls
    /\ UNCHANGED <<wall, r, timers, facadeVars, onceVars, lockVars, conv>>

\* http.Get returns, with a response or an error: getServerTime's result
\* or the local time read now is returned, and mu released
PkgNowReturn ==
    /\ calls.pkg
    /\ \E resp \in Fetch(serverURL) :
           LET res == PackageNow(useServerTime, resp, wall)
           IN  last' = Obs("PkgNow", [use |-> useServerTime, resp |-> resp],
                           res.outcome, res)
    /\ calls' = [calls EXCEPT !.pkg = FALSE]
    /\ UNCHANGED <<wall, r, timers, facadeVars, onceVars, lockVars, conv>>

ClockNext ==
    \/ Tick
    \/ Now
    \/ \E scale \in (ValidScales \cup BadScales) \ {NaN} : SetTimeScale(scale)
    \/ ClearTimeScale
    \/ SetTimeScaleWrite
    \/ GetTimeScale
    \/ \E tm \in MockInputs : SetMockTime(tm)
    \/ ClearMockTime

TimerNext ==
    \/ \E d \in Durations : Sleep(d)
    \/ \E d \in Durations : After(d)
    \/ \E i \in 1..Len(timers) : SleepReturn(i)
    \/ \E i \in 1..Len(timers) : AfterFire(i)

FacadeNext ==
    \/ \E use \in BOOLEAN, url \in URLs : SetUseServerTime(use, url)
    \/ PkgNow
    \/ PkgNowReturn

\* the virtual clock, called by one caller at a time, with every scale but
\* NaN
Next == ClockNext
Spec == Init /\ [][Next]_vars

\* the calls that set and clear the scale and the mock time, with every
\* scale, NaN included
NextScale ==
    \/ Tick
    \/ \E scale \in ValidScales \cup BadScales : SetTimeScale(scale)
    \/ ClearTimeScale
    \/ SetTimeScaleWrite
    \/ SetMockTime([t |-> MaxMock, loc |-> "UTC"])
    \/ ClearMockTime
SpecScale == Init /\ [][NextScale]_vars

\* the calls that change the clock state, as made by other callers while a
\* wait is in flight or between two package-level calls, each step of
\* theirs falling anywhere; the scale is set to a half or to two (it is 1.0
\* at the start and after SetMockTime and ClearMockTime) and the mock time
\* to one instant
ModeScales == ValidScales \ {One}
ModeNext ==
    \/ Tick
    \/ \E scale \in ModeScales : SetTimeScale(scale)
    \/ SetTimeScaleWrite
    \/ SetMockTime([t |-> MaxMock, loc |-> "UTC"])
    \/ ClearMockTime

\* the virtual clock with a Sleep or After wait in flight
NextTimers == ModeNext \/ TimerNext
SpecTimers == Init /\ [][NextTimers]_vars

\* the virtual clock read by Now() with a Sleep or After wait of the longest
\* duration in flight
NextMono ==
    \/ ModeNext
    \/ Now
    \/ Sleep(MaxD)
    \/ After(MaxD)
    \/ \E i \in 1..Len(timers) : SleepReturn(i)
    \/ \E i \in 1..Len(timers) : AfterFire(i)
SpecMono == Init /\ [][NextMono]_vars

\* the virtual clock and the package-level Now()
NextFacade == ModeNext \/ FacadeNext
SpecFacade == Init /\ [][NextFacade]_vars

----------------------------------------------------------------------------
(* GetProvider, step by step, called by concurrent goroutines *)

Goto(p, pc) == procs' = [procs EXCEPT ![p].pc = pc]

\* a goroutine calls GetProvider
GetProviderCall(p) ==
    /\ procs[p].pc \in {"idle", "ready"}
    /\ procs' = [procs EXCEPT ![p].pc = "fast", ![p].handle = 0,
                              ![p].path = "none", ![p].seen = <<>>]
    /\ UNCHANGED <<clockVars, lockVars, heap, instance, onceDone, onceM, written>>

\* once.Do: the fast path, if o.done.Load() == 0 { o.doSlow(f) }
OnceFast(p) ==
    /\ procs[p].pc = "fast"
    /\ IF OnceFastTodo(onceDone)
       THEN Goto(p, "lock")
       ELSE procs' = [procs EXCEPT ![p].pc = "return", ![p].path = "fast"]
    /\ UNCHANGED <<clockVars, lockVars, heap, instance, onceDone, onceM, written>>

\* doSlow: o.m.Lock()
OnceLock(p) ==
    /\ procs[p].pc = "lock"
    /\ onceM = 0
    /\ onceM' = p
    /\ Goto(p, "slow")
    /\ UNCHANGED <<clockVars, lockVars, heap, instance, onceDone, written>>

\* doSlow: if o.done.Load() == 0 { defer o.done.Store(1); f() }
OnceSlow(p) ==
    /\ procs[p].pc = "slow"
    /\ IF OnceSlowTodo(onceDone)
       THEN procs' = [procs EXCEPT ![p].pc = "init", ![p].path = "init"]
       ELSE procs' = [procs EXCEPT ![p].pc = "unlock", ![p].path = "waited"]
    /\ UNCHANGED <<clockVars, lockVars, heap, instance, onceDone, onceM, written>>

\* f(): instance = &realTimeProvider{timeScale: 1.0}
OnceInit(p) ==
    /\ procs[p].pc = "init"
    /\ heap' = Append(heap, NewProvider)
    /\ instance' = Len(heap) + 1
    /\ Goto(p, "store")
    /\ UNCHANGED <<clockVars, lockVars, onceDone, onceM, written>>

\* the deferred o.done.Store(1)
OnceStore(p) ==
    /\ procs[p].pc = "store"
    /\ onceDone' = TRUE
    /\ Goto(p, "unlock")
    /\ UNCHANGED <<clockVars, lockVars, heap, instance, onceM, written>>

\* the deferred o.m.Unlock()
OnceUnlock(p) ==
    /\ procs[p].pc = "unlock"
    /\ onceM' = 0
    /\ Goto(p, "return")
    /\ UNCHANGED <<clockVars, lockVars, heap, instance, onceDone, written>>

\* return instance
GetProviderReturn(p) ==
    /\ procs[p].pc = "return"
    /\ procs' = [procs EXCEPT ![p].pc = "ready", ![p].handle = instance]
    /\ UNCHANGED <<clockVars, lockVars, heap, instance, onceDone, onceM, written>>

\* SetTimeScale(scale) through the handle a goroutine holds, up to its
\* write lock: the guard (a panic leaves everything as it was), then
\* currentTime := r.Now()
HandleSetTimeScale(p, scale) ==
    /\ procs[p].pc = "ready"
    /\ IF ScaleRejected(scale)
       THEN procs' = procs
       ELSE /\ InReach(ProviderNow(heap[procs[p].handle], wall))
            /\ procs' = [procs EXCEPT
                     ![p].pc = "write",
                     ![p].call = <<[scale |-> scale,
                                    cur |-> ProviderNow(heap[procs[p].handle],
                                                        wall)]>>]
    /\ UNCHANGED <<clockVars, lockVars, heap, instance, onceDone, onceM, written>>

\* the same call from r.mockTimeLock.Lock() to its return: the writes
HandleSetTimeScaleWrite(p) ==
    /\ procs[p].pc = "write"
    /\ LET c == procs[p].call[1]
       IN  /\ heap' = [heap EXCEPT ![procs[p].handle] =
                           ProviderSetTimeScaleWrite(@, c.cur, c.scale, wall)]
           /\ written' = <<c.scale>>
           /\ StoreScale(c.scale)
    /\ procs' = [procs EXCEPT ![p].pc = "ready", ![p].call = <<>>]
    /\ UNCHANGED <<wall, r, last, timers, facadeVars, calls, lockVars,
                   instance, onceDone, onceM>>

\* GetTimeScale() through the handle a goroutine holds; want is the scale
\* last set through any handle, 1.0 when none was
HandleGetTimeScale(p) ==
    /\ procs[p].pc = "ready"
    /\ procs' = [procs EXCEPT ![p].seen =
                    <<[got |-> ProviderGetTimeScale(heap[procs[p].handle]),
                       want |-> IF written = <<>> THEN One ELSE written[1]]>>]
    /\ UNCHANGED <<clockVars, lockVars, heap, instance, onceDone, onceM, written>>

NextProvider ==
    \E p \in Procs :
        \/ GetProviderCall(p)
        \/ OnceFast(p)
        \/ OnceLock(p)
        \/ OnceSlow(p)
        \/ OnceInit(p)
        \/ OnceStore(p)
        \/ OnceUnlock(p)
        \/ GetProviderReturn(p)
        \/ \E scale \in (ValidScales \cup BadScales) \ {NaN} :
               HandleSetTimeScale(p, scale)
        \/ HandleSetTimeScaleWrite(p)
        \/ HandleGetTimeScale(p)

SpecProvider == Init /\ [][NextProvider]_vars

----------------------------------------------------------------------------
(* The clock and the facade called by concurrent goroutines, lock by lock. *)

\* what a step of a call leaves alone besides r, the locks and the
\* configuration
callFrame == <<wall, last, timers, onceVars, calls, conv>>

Enter(p, pc, arg) == thr' = [thr EXCEPT ![p] = [IdleThread EXCEPT !.pc = pc,
                                                                 !.arg = arg]]
Move(p, pc) == thr' = [thr EXCEPT ![p].pc = pc]
Return(p) == thr' = [thr EXCEPT ![p] = IdleThread]

\* the inputs of the concurrent calls
LockScales == {[num |-> 2, den |-> 1], [num |-> 0, den |-> 1]}
LockMockInputs == {[t |-> MaxMock, loc |-> "UTC"]}
LockConfigs == {[use |-> TRUE, url |-> GoodURL]}

\* a goroutine starts a call
CallNow(p) ==
    /\ thr[p].pc = "idle"
    /\ Enter(p, "nowRLock", <<>>)
    /\ UNCHANGED <<r, mockTimeLock, mu, facadeVars, callFrame>>

CallGetTimeScale(p) ==
    /\ thr[p].pc = "idle"
    /\ Enter(p, "getRLock", <<>>)
    /\ UNCHANGED <<r, mockTimeLock, mu, facadeVars, callFrame>>

\* SetTimeScale begins with its guard, before any lock is taken
CallSetTimeScale(p, scale) ==
    /\ thr[p].pc = "idle"
    /\ IF ScaleRejected(scale)
       THEN Enter(p, "stsPanic", <<>>)
       ELSE Enter(p, "stsRLock", <<scale>>)
    /\ UNCHANGED <<r, mockTimeLock, mu, facadeVars, callFrame>>

\* ClearTimeScale() holds no lock when it calls SetTimeScale(1.0)
CallClearTimeScale(p) ==
    /\ thr[p].pc = "idle"
    /\ IF ScaleRejected(One)
       THEN Enter(p, "stsPanic", <<>>)
       ELSE Enter(p, "stsRLock", <<One>>)
    /\ UNCHANGED <<r, mockTimeLock, mu, facadeVars, callFrame>>

CallSetMockTime(p, tm) ==
    /\ thr[p].pc = "idle"
    /\ Enter(p, "smtLock", <<tm>>)
    /\ UNCHANGED <<r, mockTimeLock, mu, facadeVars, callFrame>>

CallClearMockTime(p) ==
    /\ thr[p].pc = "idle"
    /\ Enter(p, "cmtLock", <<>>)
    /\ UNCHANGED <<r, mockTimeLock, mu, facadeVars, callFrame>>

CallSleep(p, d) ==
    /\ thr[p].pc = "idle"
    /\ Enter(p, "sleepRead1", <<d>>)
    /\ UNCHANGED <<r, mockTimeLock, mu, facadeVars, callFrame>>

CallAfter(p, d) ==
    /\ thr[p].pc = "idle"
    /\ Enter(p, "afterRead1", <<d>>)
    /\ UNCHANGED <<r, mockTimeLock, mu, facadeVars, callFrame>>

CallSetUseServerTime(p, cfg) ==
    /\ thr[p].pc = "idle"
    /\ Enter(p, "susLock", <<cfg>>)
    /\ UNCHANGED <<r, mockTimeLock, mu, facadeVars, callFrame>>

CallPkgNow(p) ==
    /\ thr[p].pc = "idle"
    /\ Enter(p, "pkgRLock", <<>>)
    /\ UNCHANGED <<r, mockTimeLock, mu, facadeVars, callFrame>>

\* r.mockTimeLock.RLock() of Now(), of GetTimeScale() and of the Now() that
\* SetTimeScale calls
AfterRLock(pc) ==
    CASE pc = "nowRLock" -> "nowRead"
      [] pc = "getRLock" -> "getRead"
      [] pc = "stsRLock" -> "stsRead"

ClockRLock(p) ==
    /\ thr[p].pc \in {"nowRLock", "getRLock", "stsRLock"}
    /\ CanRLock(mockTimeLock)
    /\ mockTimeLock' = RLock(mockTimeLock, p)
    /\ Move(p, AfterRLock(thr[p].pc))
    /\ UNCHANGED <<r, mu, facadeVars, callFrame>>

\* Now() computes its result and returns, running the deferred RUnlock
NowRead(p) ==
    /\ thr[p].pc = "nowRead"
    /\ mockTimeLock' = RUnlock(mockTimeLock, p)
    /\ Return(p)
    /\ UNCHANGED <<r, mu, facadeVars, callFrame>>

GetRead(p) ==
    /\ thr[p].pc = "getRead"
    /\ mockTimeLock' = RUnlock(mockTimeLock, p)
    /\ Return(p)
    /\ UNCHANGED <<r, mu, facadeVars, callFrame>>

\* the panic unwinds into the caller: the call is over
StsPanic(p) ==
    /\ thr[p].pc = "stsPanic"
    /\ Return(p)
    /\ UNCHANGED <<r, mockTimeLock, mu, facadeVars, callFrame>>

\* currentTime := r.Now(): the value is kept, the read lock released
StsRead(p) ==
    /\ thr[p].pc = "stsRead"
    /\ mockTimeLock' = RUnlock(mockTimeLock, p)
    /\ thr' = [thr EXCEPT ![p].pc = "stsLock",
                          ![p].cur = <<[v |-> ProviderNow(r, wall),
                                        at |-> wall]>>]
    /\ UNCHANGED <<r, mu, facadeVars, callFrame>>

\* r.mockTimeLock.Lock() of the three writers: announce, then wait
AfterLock(pc) ==
    CASE pc = "stsLock" -> "stsWait"
      [] pc = "smtLock" -> "smtWait"
      [] pc = "cmtLock" -> "cmtWait"
      [] pc = "stsWait" -> "stsWrite"
      [] pc = "smtWait" -> "smtWrite"
      [] pc = "cmtWait" -> "cmtWrite"

ClockLock(p) ==
    /\ thr[p].pc \in {"stsLock", "smtLock", "cmtLock"}
    /\ CanLock(mockTimeLock)
    /\ mockTimeLock' = LockPending(mockTimeLock, p)
    /\ Move(p, AfterLock(thr[p].pc))
    /\ UNCHANGED <<r, mu, facadeVars, callFrame>>

ClockLockWait(p) ==
    /\ thr[p].pc \in {"stsWait", "smtWait", "cmtWait"}
    /\ LockHeld(mockTimeLock, p)
    /\ Move(p, AfterLock(thr[p].pc))
    /\ UNCHANGED <<r, mockTimeLock, mu, facadeVars, callFrame>>

\* the write-locked sections, ended by the deferred Unlock
StsWrite(p) ==
    /\ thr[p].pc = "stsWrite"
    /\ r' = ProviderSetTimeScaleWrite(r, thr[p].cur[1].v, thr[p].arg[1], wall)
    /\ StoreScale(thr[p].arg[1])
    /\ mockTimeLock' = Unlock(mockTimeLock, p)
    /\ Return(p)
    /\ UNCHANGED <<mu, facadeVars, wall, last, timers, onceVars, calls>>

SmtWrite(p) ==
    /\ thr[p].pc = "smtWrite"
    /\ r' = ProviderSetMockTime(r, thr[p].arg[1], wall)
    /\ mockTimeLock' = Unlock(mockTimeLock, p)
    /\ Return(p)
    /\ UNCHANGED <<mu, facadeVars, callFrame>>

CmtWrite(p) ==
    /\ thr[p].pc = "cmtWrite"
    /\ r' = ProviderClearMockTime(r)
    /\ mockTimeLock' = Unlock(mockTimeLock, p)
    /\ Return(p)
    /\ UNCHANGED <<mu, facadeVars, callFrame>>

\* another goroutine is inside a write-locked section of the clock
WriterInside(p) ==
    \E q \in Procs \ {p} : thr[q].pc \in {"stsWrite", "smtWrite", "cmtWrite"}

\* Sleep and After: the test r.timeScale != 1.0, made with no lock held
AfterScaleTest(pc, s) ==
    CASE pc = "sleepRead1" -> IF s # One THEN "sleepRead2" ELSE "sleepWait"
      [] pc = "afterRead1" -> IF s # One THEN "afterRead2" ELSE "afterWait"

ScaleTest(p) ==
    /\ thr[p].pc \in {"sleepRead1", "afterRead1"}
    /\ LET s == r.timeScale
       IN  thr' = [thr EXCEPT ![p].pc = AfterScaleTest(thr[p].pc, s),
                              ![p].reads = <<s>>,
                              ![p].racy = WriterInside(p),
                              ![p].wait = IF s # One THEN <<>>
                                          ELSE <<[start |-> wall,
                                                  wait |-> thr[p].arg[1]]>>]
    /\ UNCHANGED <<r, mockTimeLock, mu, facadeVars, callFrame>>

\* Sleep and After: float64(d) / r.timeScale, a second read of the field
ScaleDivide(p) ==
    /\ thr[p].pc \in {"sleepRead2", "afterRead2"}
    /\ LET s == r.timeScale
       IN  thr' = [thr EXCEPT ![p].pc = IF @ = "sleepRead2" THEN "sleepWait"
                                        ELSE "afterWait",
                              ![p].reads = Append(@, s),
                              ![p].racy = @ \/ WriterInside(p),
                              ![p].wait = <<[start |-> wall,
                                             wait |-> Unscaled(thr[p].arg[1], s)]>>]
    /\ UNCHANGED <<r, mockTimeLock, mu, facadeVars, callFrame>>

\* time.Sleep returns, or the channel of time.After delivers, once the
\* wait has passed
TimerDone(p) ==
    /\ thr[p].pc \in {"sleepWait", "afterWait"}
    /\ Due(thr[p].wait[1], wall)
    /\ Return(p)
    /\ UNCHANGED <<r, mockTimeLock, mu, facadeVars, callFrame>>

\* serverTime.go: SetUseServerTime under mu.Lock()
SusLock(p) ==
    /\ thr[p].pc = "susLock"
    /\ CanLock(mu)
    /\ mu' = LockPending(mu, p)
    /\ Move(p, "susWait")
    /\ UNCHANGED <<r, mockTimeLock, facadeVars, callFrame>>

SusLockWait(p) ==
    /\ thr[p].pc = "susWait"
    /\ LockHeld(mu, p)
    /\ Move(p, "susWrite")
    /\ UNCHANGED <<r, mockTimeLock, mu, facadeVars, callFrame>>

SusWrite(p) ==
    /\ thr[p].pc = "susWrite"
    /\ useServerTime' = thr[p].arg[1].use
    /\ serverURL' = thr[p].arg[1].url
    /\ mu' = Unlock(mu, p)
    /\ Return(p)
    /\ UNCHANGED <<r, mockTimeLock, callFrame>>

\* serverTime.go: Now() under mu.RLock(); the fetch returns, with whatever
\* response, while the read lock is held
PkgRLock(p) ==
    /\ thr[p].pc = "pkgRLock"
    /\ CanRLock(mu)
    /\ mu' = RLock(mu, p)
    /\ Move(p, "pkgRead")
    /\ UNCHANGED <<r, mockTimeLock, facadeVars, callFrame>>

PkgRead(p) ==
    /\ thr[p].pc = "pkgRead"
    /\ \E resp \in (IF useServerTime THEN Fetch(serverURL) ELSE {TransportError}) :
           PackageNow(useServerTime, resp, wall).outcome = "ok"
    /\ mu' = RUnlock(mu, p)
    /\ Return(p)
    /\ UNCHANGED <<r, mockTimeLock, facadeVars, callFrame>>

\* the steps of the calls under way, and the calls a goroutine may start
WriterStep(p) ==
    \/ ClockRLock(p)
    \/ StsPanic(p)
    \/ StsRead(p)
    \/ ClockLock(p)
    \/ ClockLockWait(p)
    \/ StsWrite(p)
    \/ SmtWrite(p)
    \/ CmtWrite(p)

WriterCall(p) ==
    \/ \E scale \in LockScales : CallSetTimeScale(p, scale)
    \/ CallClearTimeScale(p)
    \/ \E tm \in LockMockInputs : CallSetMockTime(p, tm)
    \/ CallClearMockTime(p)

ReaderStep(p) == NowRead(p) \/ GetRead(p)
ReaderCall(p) == CallNow(p) \/ CallGetTimeScale(p)

WaiterStep(p) == ScaleTest(p) \/ ScaleDivide(p) \/ TimerDone(p)
WaiterCall(p) == CallSleep(p, MaxD) \/ CallAfter(p, MaxD)

ConfigStep(p) ==
    \/ SusLock(p)
    \/ SusLockWait(p)
    \/ SusWrite(p)
    \/ PkgRLock(p)
    \/ PkgRead(p)

ConfigCall(p) ==
    \/ \E cfg \in LockConfigs : CallSetUseServerTime(p, cfg)
    \/ CallPkgNow(p)

\* the writers of the clock state with concurrent Sleep and After calls
NextLock ==
    \/ Tick
    \/ \E p \in Procs :
           WriterCall(p) \/ WriterStep(p) \/ WaiterCall(p) \/ WaiterStep(p)

SpecLock == Init /\ [][NextLock]_vars

\* the readers and writers of the clock and of the facade's configuration;
\* none of their steps waits for the wall clock, which stands still here:
\* the calls overlap within one tick
LiveStep(p) == WriterStep(p) \/ ReaderStep(p) \/ ConfigStep(p)

NextLive ==
    \E p \in Procs : WriterCall(p) \/ ReaderCall(p) \/ ConfigCall(p) \/ LiveStep(p)

\* under a fair scheduler: a call under way takes its next step if that
\* step is possible again and again (the Go scheduler runs every runnable
\* goroutine, and sync.RWMutex admits every waiting reader and writer in
\* turn)
SpecLive == Init /\ [][NextLive]_vars /\ \A p \in Procs : SF_vars(LiveStep(p))

----------------------------------------------------------------------------
(* Claims about the virtual clock *)

\* a call that changed or kept the scale and returned normally
ScaleCall == last.op \in {"SetTimeScale", "ClearTimeScale"} /\ last.outcome = "ok"

\* C1: continuity across transitions.  After SetTimeScale(s), s > 0
\* (ClearTimeScale included), or SetMockTime(t) with t not earlier than the
\* current virtual time, Now() is never smaller than the value Now() had
\* just before the call.
C1_Continuity ==
    (\/ ScaleCall
     \/ (last.op = "SetMockTime" /\ last.arg.t >= last.prior.t))
        => ProviderNow(r, wall).t >= last.prior.t

\* C2: mock exactness.  With no wall-clock time elapsed since SetMockTime(T),
\* Now() is exactly T (the instant T, presented in UTC), whatever scale and
\* mock anchor were in force before.
C2_MockExact ==
    (last.op = "SetMockTime" /\ wall = last.at)
        => ProviderNow(r, wall) = UTC(last.arg)

C2_Witness ==
    /\ last.op = "SetMockTime" /\ wall = last.at
    /\ last.prior.t # wall
    /\ last.arg.loc = "Local" /\ last.arg.t # last.prior.t
    /\ wall > WallStart

\* C3: SetTimeScale(s) with s <= 0 panics and leaves every field of the
\* clock state as it was: nothing is clamped or stored.
C3_RejectedScale ==
    [][(last'.op = "SetTimeScale" /\ last'.arg.num <= 0)
           => (last'.outcome = "panic" /\ r' = r)]_vars

C3_Witness ==
    /\ last.op = "SetTimeScale" /\ last.outcome = "panic"
    /\ last.arg.num < 0
    /\ r.mockTime # <<>> /\ r.timeScale # One

\* C4: scale law.  With priorVirtual the value of Now() just before
\* SetTimeScale(s), and no other call since, after a wall-clock delay D
\* Now() - priorVirtual is s * D (truncated), in mock and non-mock mode and
\* for every s, 1.0 included.
C4_ScaleLaw ==
    ScaleCall =>
        ProviderNow(r, wall).t - last.prior.t
            = Scaled(wall - last.at, last.arg)

----------------------------------------------------------------------------
(* Further claims about the virtual clock *)

C12_MonotoneAcrossClear ==
    (last.op = "Now" /\ last.since # <<>>)
        => last.result[1].t >= last.since[1].v.t

\* C12 as amended: of two Now() calls with no SetTimeScale, ClearTimeScale,
\* SetMockTime or ClearMockTime call between them, the second result is not
\* less than the first.
C12_MonotoneConstantMode ==
    (last.op = "Now" /\ last.since # <<>> /\ ~last.since[1].cleared)
        => last.result[1].t >= last.since[1].v.t

C12_Witness ==
    /\ last.op = "Now" /\ last.since # <<>> /\ ~last.since[1].cleared
    /\ r.timeScale = [num |-> 1, den |-> 2]
    /\ r.mockTime = <<>>
    /\ last.result[1].t > last.since[1].v.t
    /\ last.result[1].t < wall
    /\ timers # <<>>

\* C13: GetTimeScale reports the scale in force: 1.0 initially, s after a
\* successful SetTimeScale(s), 1.0 after ClearTimeScale and after
\* SetMockTime, for any sequence of these calls.
C13_ScaleInForce ==
    /\ last.expect # <<>> => ProviderGetTimeScale(r) = last.expect[1]
    /\ (last.op = "GetTimeScale" /\ last.expect # <<>>)
           => last.result = last.expect

C13_Witness ==
    /\ last.op = "GetTimeScale"
    /\ last.result = <<[num |-> 2, den |-> 1]>>
    /\ last.expect = last.result
    /\ r.mockTime # <<>>

\* C15: SetTimeScale(s) called in mock mode rebases the mock anchor to the
\* current virtual time: afterwards mockBase is the value Now() had just
\* before the call and mockStart is the present wall-clock instant,
\* whatever scale was in force before.
C15_MockRebase ==
    (ScaleCall /\ r.mockTime # <<>>)
        => (r.mockBaseTime.t = last.prior.t /\ r.mockStartTime.t = last.at)

\* C18 as claimed: ClearMockTime leaves the scale as it was.
C18_ClearMockKeepsScale ==
    last.op = "ClearMockTime"
        => ProviderGetTimeScale(r) = last.result.scaleBefore

\* C18 as amended: ClearMockTime clears the mock time and resets the scale
\* to 1.0, so that Now() is the host wall clock again, ticking at rate 1.
C18_ClearMockResetsScale ==
    last.op = "ClearMockTime"
        => /\ ProviderGetTimeScale(r) = One
           /\ r.mockTime = <<>>
           /\ ProviderNow(r, wall) = UTC(TimeNow(wall))

C18_Witness ==
    /\ last.op = "ClearMockTime"
    /\ last.result.scaleBefore = [num |-> 2, den |-> 1]
    /\ last.prior.t > last.at + 1
    /\ wall > last.at

----------------------------------------------------------------------------
(* Claims about concurrent callers *)

\* C14: invariant I1: in every reachable state, after any sequence and any
\* interleaving of SetTimeScale (valid or rejected), ClearTimeScale,
\* SetMockTime and ClearMockTime, the stored scale is strictly greater
\* than 0.
C14_ScalePositive == r.timeScale.num > 0 /\ r.timeScale.den > 0

\* C16: SetTimeScale reads the current virtual time and writes the new
\* base, start and scale as one atomic step: when it writes, the
\* currentTime it read is still what the clock state gives for the instant
\* of the read, no other writer having changed the clock state in between.
C16_AtomicRebase ==
    \A p \in Procs :
        thr[p].pc = "stsWrite"
            => thr[p].cur[1].v = ProviderNow(r, thr[p].cur[1].at)

\* C17: Sleep and After read the scale once per call, under the lock: no
\* read of the scale is made while a writer is inside its write-locked
\* section, and one call never uses two different scale values.
C17_ScaleReadOnce ==
    \A p \in Procs :
        /\ ~thr[p].racy
        /\ Len(thr[p].reads) = 2 => thr[p].reads[1] = thr[p].reads[2]

\* C20: deadlock freedom: no goroutine holds a lock it is acquiring, the
\* clock lock and the configuration lock are never held together, and
\* under a fair scheduler every call that has begun eventually completes:
\* no goroutine stays inside a call for ever, each is between calls again
\* and again.
C20_EveryCallCompletes ==
    /\ [](\A p \in Procs :
              /\ ~(p \in mockTimeLock.readers /\ mockTimeLock.w = p)
              /\ ~(p \in mu.readers /\ mu.w = p)
              /\ ~(Holds(mockTimeLock, p) /\ Holds(mu, p)))
    /\ \A p \in Procs : []<>(thr[p].pc = "idle")

C20_Witness ==
    \E p, q \in Procs :
        /\ thr[p].pc = "stsWait"
        /\ q \in mockTimeLock.readers
        /\ thr[q].pc \in {"nowRead", "getRead"}
        /\ useServerTime

----------------------------------------------------------------------------
(* Claims about Sleep and After *)

\* C5 as claimed: Sleep(d) and After(d) wait d / scale of wall-clock time
\* (truncated), with the scale in force when the call was made, and exactly
\* d at scale 1.0; a SetTimeScale, SetMockTime or ClearMockTime made while
\* the wait is in flight does not change its length.
C5_WaitExactly ==
    last.op \in {"Sleep", "After"} =>
        /\ last.result.woke - last.result.start
               = TruncDiv(last.arg * last.result.scale.den, last.result.scale.num)
        /\ last.result.scale = One
               => last.result.woke - last.result.start = last.arg

\* C5 as amended: Sleep(d) and After(d) hand the runtime a wait of d / scale
\* of wall-clock time (truncated), with the scale in force when the call
\* was made, and of exactly d at scale 1.0; the wait ends no earlier than
\* that, and may end later; a SetTimeScale, SetMockTime or ClearMockTime
\* made while the wait is in flight does not change the wait handed over.
C5_WaitLength ==
    /\ \A i \in 1..Len(timers) :
           timers[i].wait
               = TruncDiv(timers[i].d * timers[i].scale.den, timers[i].scale.num)
    /\ last.op \in {"Sleep", "After"} =>
           /\ last.result.wait
                  = TruncDiv(last.arg * last.result.scale.den,
                             last.result.scale.num)
           /\ last.result.scale = One => last.result.wait = last.arg
           /\ last.result.woke - last.result.start >= last.result.wait

C5_Witness ==
    /\ last.op = "Sleep" /\ last.arg = 2
    /\ last.result.scale = [num |-> 2, den |-> 1]
    /\ last.result.woke = last.result.start + 2
    /\ r.timeScale = [num |-> 1, den |-> 2]
    /\ r.mockTime # <<>>

\* C6 as claimed: while mock mode is active, After(d) fires immediately,
\* with no real-time delay, for every d > 0.
C6_MockAfterImmediate ==
    (last.op = "After" /\ last.result.mock /\ last.arg > 0)
        => last.result.woke = last.result.start

\* C6 as amended: while mock mode is active, After(d) fires once d / scale
\* of wall-clock time (truncated) has passed, not before, as it does
\* outside mock mode.
C6_MockAfterWaits ==
    (last.op = "After" /\ last.result.mock /\ last.arg > 0)
        => /\ last.result.wait = Unscaled(last.arg, last.result.scale)
           /\ last.result.woke >= last.result.start + last.result.wait

C6_Witness ==
    /\ last.op = "After" /\ last.result.mock /\ last.arg > 0
    /\ r.mockTime # <<>>
    /\ last.result.woke > last.result.start

\* C19: the value the channel of After(d) delivers is the virtual instant at
\* fire time, the value Now() has when the timer fires, not the raw wall
\* clock.
C19_AfterDeliversVirtual ==
    last.op = "After" => last.result.value.t = last.prior.t

----------------------------------------------------------------------------
(* Claims about the package-level Now() *)

\* the request was made and did not yield a timestamp: a transport error, a
\* status other than 200 OK, a body that is not JSON, a malformed timestamp
FetchFails(resp) ==
    \/ resp.transport
    \/ resp.status # StatusOK
    \/ ~resp.body.json
    \/ ~resp.body.currentTime.wellFormed

\* the package-level Now() returned without using a server result
AnsweredLocally ==
    /\ last.op = "PkgNow"
    /\ (~last.arg.use \/ FetchFails(last.arg.resp))

\* C7 as claimed: when remote mode is off, or on and the fetch fails, the
\* package-level Now() returns what the provider's Now() returns at that
\* instant, mock time and scale included.
C7_AnswersFromProvider ==
    AnsweredLocally => last.result.time = last.prior

\* C7 as amended: when remote mode is off, or on and the fetch fails, the
\* package-level Now() returns the host wall clock in UTC, whatever the
\* provider's mock time and scale are.
C7_AnswersFromWallClock ==
    AnsweredLocally => last.result.time = UTC(TimeNow(last.at))

C7_Witness ==
    /\ AnsweredLocally /\ last.arg.use
    /\ r.mockTime # <<>> /\ r.timeScale # One
    /\ last.prior.t # last.at

\* C8: the package-level Now() never fails: with remote mode on, a transport
\* error, a status other than 200 OK, a body that is not JSON and a
\* malformed timestamp are all absorbed, and a local time is returned.
C8_NowNeverFails ==
    last.op = "PkgNow" =>
        /\ last.outcome = "ok"
        /\ (last.arg.use /\ FetchFails(last.arg.resp))
               => last.result.time = UTC(TimeNow(last.at))

C8_Witness ==
    /\ last.op = "PkgNow" /\ last.arg.use
    /\ ~last.arg.resp.transport
    /\ last.arg.resp.status # StatusOK
    /\ last.arg.resp.body.json
    /\ last.arg.resp.body.currentTime.wellFormed
    /\ last.outcome = "ok"

\* C9: with remote mode on and a fetch that succeeds, the package-level
\* Now() returns exactly the instant the server sent, whatever the scale and
\* mock state of the provider are.
C9_ServerInstant ==
    (last.op = "PkgNow" /\ last.arg.use /\ ~FetchFails(last.arg.resp))
        => last.result.time.t
               = last.arg.resp.body.currentTime.clock
                     - last.arg.resp.body.currentTime.off

C9_Witness ==
    /\ last.op = "PkgNow" /\ last.arg.use /\ ~FetchFails(last.arg.resp)
    /\ last.arg.resp.body.currentTime.off # 0
    /\ r.mockTime # <<>> /\ r.timeScale # One
    /\ last.result.time.t # last.prior.t

----------------------------------------------------------------------------
(* Claims about GetProvider *)

\* C10: GetProvider is a singleton: however concurrent first calls
\* interleave, one provider is constructed (scale 1.0, no mock time), every
\* call returns it, and a scale set through one handle is read through
\* every other.
C10_Singleton ==
    /\ Len(heap) <= 1
    /\ (heap # <<>> /\ written = <<>>) => heap[1] = NewProvider
    /\ \A p \in Procs :
          /\ procs[p].pc = "ready"
                 => (procs[p].handle = instance /\ instance = 1)
          /\ procs[p].seen # <<>>
                 => procs[p].seen[1].got = procs[p].seen[1].want

C10_Witness ==
    \E p, q \in Procs :
        /\ p # q
        /\ procs[p].pc = "ready" /\ procs[p].path = "init"
        /\ procs[q].pc = "ready" /\ procs[q].path = "waited"
        /\ written = <<[num |-> 2, den |-> 1]>>
        /\ procs[p].seen # <<>>
        /\ procs[p].seen[1].got = [num |-> 2, den |-> 1]
        /\ procs[q].seen # <<>>
        /\ procs[q].seen[1].got = [num |-> 2, den |-> 1]

====
